---------------------------- MODULE Spec2Model ----------------------------
(***************************************************************************)
(* State-machine model of the SmartCanvas component                        *)
(* (src/src/components/SmartCanvas.tsx): the Op document, the redo stack,  *)
(* the layer registry, the pointer gestures, the text editor, JSON         *)
(* save/load and image import.                                             *)
(*                                                                         *)
(* Every React event handler is one atomic action: the handlers run on one *)
(* thread, pointer / keyboard / click events are flushed synchronously, so *)
(* a handler sees the state left by the previous one.  The two             *)
(* asynchronous completions (FileReader.onload, Image.onload) are separate *)
(* actions; Image.onload reads the currentLayer captured by the closure    *)
(* that started the import.  State updaters run once per update (the       *)
(* production build).                                                      *)
(*                                                                         *)
(* Numbers: pointer coordinates are integers (device pixels), pressure and *)
(* alpha are hundredths.  Image geometry is computed in IEEE 754 doubles,  *)
(* whose division, product and difference the language defines bit for    *)
(* bit.  Math.atan2, sin, cos and hypot are implementation-approximated;   *)
(* the end point of a snapped line is modelled by its mathematical value.  *)
(*                                                                         *)
(* Object identity: the only identity test of the code is                  *)
(* `last === stroke` in pointerUp.  A StrokeOp carries the tag `held`,     *)
(* TRUE exactly for the object the state `currentStroke` refers to; the    *)
(* tag is not a field of the TypeScript type and is dropped by             *)
(* JSON.stringify.                                                         *)
(***************************************************************************)
EXTENDS Integers, Sequences, FiniteSets, TLC

\* ------------------------------------------------------------------ bounds
\* The longest Document ++ redoStack the model builds.
MaxOps == 2
\* The most layers in the layer list.
MaxLayers == 2
\* The most points one stroke collects.
MaxPts == 3
\* File reads / image decodes in flight at once.
MaxPending == 1
\* The greatest layer id addLayer issues.
MaxLayerId == 2
\* Backing-store size of the canvas, in device pixels.
CanvasW == 4
CanvasH == 4
\* The longest Document the renderer is given.
MaxRenderOps == 2
\* The longest polyline simplifyRDP is given on its own.
MaxRdpPts == 4
MaxShapeCoord == 3
MaxSurface == 8

\* ------------------------------------------------------- program constants
\* useState initial values of the tool settings (lines 401-405).
color == "#164e63"
size == 4
alpha == 100
brushType == "smooth"
\* alpha of a highlighter stroke, hundredths (line 680).
HighlighterAlpha == 30
\* clamp(e.pressure || 0.5, 0.05, 1), hundredths (line 655).
DefaultPressure == 50
MinPressure == 5
MaxPressure == 100
\* The significand of a Number, an IEEE 754 double, has 53 bits (line 873).
Precision == 53
\* simplifyRDP(stroke.points, 0.9): epsilon = EpsNum / EpsDen (line 763).
EpsNum == 9
EpsDen == 10
\* c.width / rect.width with dpr = 1 set at line 425: device px per CSS px.
Dpr == 1
\* Math.max(12, size * 6) (line 795).
MinFont == 12
FontFactor == 6

TOOLS == {"pen", "highlighter", "eraser", "line", "rect", "ellipse", "text", "select"}
FREEHAND_TOOLS == {"pen", "highlighter", "eraser"}
TextFont == "Inter, ui-sans-serif, system-ui, -apple-system, Segoe UI, Roboto, sans-serif"

\* ------------------------------------------------------------------ inputs
\* A pointer event: position in CSS pixels relative to the canvas rect,
\* pressure in hundredths (0 = the device reports none), button.
P0 == [clientX |-> 0, clientY |-> 0]
P1 == [clientX |-> 1, clientY |-> 1]
Pressures == {0}
\* What the user can have typed in the floating text editor.
TextInputs == {" ", "hi"}
\* Decoded image sizes (img.width, img.height).
ImageSizes == {[width |-> 8, height |-> 4]}

\* ----------------------------------------------------------------- helpers
Max2(a, b) == IF a >= b THEN a ELSE b
Min2(a, b) == IF a <= b THEN a ELSE b
Abs(n) == IF n < 0 THEN -n ELSE n
Sign(n) == IF n > 0 THEN 1 ELSE IF n < 0 THEN -1 ELSE 0
Front(s) == SubSeq(s, 1, Len(s) - 1)
Last(s) == s[Len(s)]
RECURSIVE Gcd(_, _)
Gcd(a, b) == IF b = 0 THEN a ELSE Gcd(b, a % b)
\* The exact rational n / d (d > 0), in lowest terms.
Rat(n, d) == LET g == Gcd(Abs(n), d) IN [n |-> n \div g, d |-> d \div g]

\* function clamp (lines 122-124)
clamp(n, a, b) == Max2(a, Min2(b, n))


\* --------------------------------------------------------------- geometry
\* Squared distances are exact rationals [n, d], d > 0, compared by cross
\* multiplication.
RatGt(a, b) == a.n * b.d > b.n * a.d
sq(n) == n * n

\* distSqToSegment (lines 130-143)
distSqToSegment(p, a, b) ==
    LET vx == b.x - a.x
        vy == b.y - a.y
        wx == p.x - a.x
        wy == p.y - a.y
        c1 == vx * wx + vy * wy
        c2 == vx * vx + vy * vy
    IN  IF c1 <= 0 THEN [n |-> sq(p.x - a.x) + sq(p.y - a.y), d |-> 1]
        ELSE IF c2 <= c1 THEN [n |-> sq(p.x - b.x) + sq(p.y - b.y), d |-> 1]
        \* |p - (a + t v)|^2 with t = c1 / c2
        ELSE [n |-> (sq(wx) + sq(wy)) * c2 - sq(c1), d |-> c2]

\* The for loop of rdp (lines 148-154): the state [idx, dmax] after
\* visiting the interior points i..end-1 (1-based), first maximum wins.
RECURSIVE rdpScan(_, _, _)
rdpScan(pts, i, acc) ==
    IF i >= Len(pts) THEN acc
    ELSE LET d == distSqToSegment(pts[i], pts[1], pts[Len(pts)])
         IN  rdpScan(pts, i + 1,
                     IF RatGt(d, acc.dmax) THEN [idx |-> i, dmax |-> d] ELSE acc)

\* rdp (lines 144-161)
RECURSIVE rdp(_, _)
\* (mutant: the two halves are joined without dropping the shared split point)
rdp_m(pts, epsSq) ==
    LET end == Len(pts)
        found == rdpScan(pts, 2, [idx |-> 1, dmax |-> [n |-> 0, d |-> 1]])
    IN  IF RatGt(found.dmax, epsSq)
        THEN rdp(SubSeq(pts, 1, found.idx), epsSq)
                 \o rdp(SubSeq(pts, found.idx, end), epsSq)
        ELSE <<pts[1], pts[end]>>
rdp(pts, epsSq) ==
    LET end == Len(pts)
        found == rdpScan(pts, 2, [idx |-> 1, dmax |-> [n |-> 0, d |-> 1]])
    IN  IF RatGt(found.dmax, epsSq)
        THEN Front(rdp(SubSeq(pts, 1, found.idx), epsSq))
                 \o rdp(SubSeq(pts, found.idx, end), epsSq)
        ELSE <<pts[1], pts[end]>>

\* simplifyRDP (lines 127-163); epsilon is the rational [n, d]
\* (mutant: rdp is given epsilon where it expects epsilon squared)
simplifyRDP_m(points, epsilon) ==
    IF Len(points) < 3 THEN points ELSE rdp(points, epsilon)
simplifyRDP(points, epsilon) ==
    IF Len(points) < 3 THEN points
    ELSE rdp(points, [n |-> sq(epsilon.n), d |-> sq(epsilon.d)])

\* The snap directions of constrainWithShift in the order of `snaps`
\* (lines 200-209), as (cos, sin) scaled by sqrt 2 on the diagonals.
SnapDirs == << <<1, 0>>, <<1, 1>>, <<0, 1>>, <<-1, 1>>,
               <<-1, 0>>, <<1, -1>>, <<0, -1>>, <<-1, -1>> >>
IsDiagonal(k) == SnapDirs[k][1] # 0 /\ SnapDirs[k][2] # 0
\* (dx, dy) . unit(k) > (dx, dy) . unit(j): the dot products are m, or
\* m / sqrt 2 on a diagonal; compared through their signs and squares.
SurdGt(m1, diag1, m2, diag2) ==
    LET w1 == IF diag1 THEN 1 ELSE 2
        w2 == IF diag2 THEN 1 ELSE 2
    IN  IF m1 >= 0 /\ m2 >= 0 THEN w1 * sq(m1) > w2 * sq(m2)
        ELSE IF m1 >= 0 THEN m1 > 0 \/ m2 < 0
        ELSE IF m2 >= 0 THEN FALSE
        ELSE w1 * sq(m1) < w2 * sq(m2)
\* (mutant: the y component enters with the wrong sign)
Dot_m(dx, dy, k) == dx * SnapDirs[k][1] - dy * SnapDirs[k][2]
Dot(dx, dy, k) == dx * SnapDirs[k][1] + dy * SnapDirs[k][2]
\* The loop of lines 210-218: the angular distance to snap k is smallest
\* where the dot product with its unit vector is greatest; the first best
\* snap wins, and the zero vector (atan2(0, 0) = 0) snaps to angle 0.
RECURSIVE snapScan(_, _, _, _)
snapScan(dx, dy, k, best) ==
    IF k > Len(SnapDirs) THEN best
    ELSE snapScan(dx, dy, k + 1,
                  IF SurdGt(Dot(dx, dy, k), IsDiagonal(k),
                            Dot(dx, dy, best), IsDiagonal(best))
                  THEN k ELSE best)
\* A shape's end point coordinate is the number i + s * sqrt(r / 2), s in
\* {-1, 0, 1}: an integer (s = 0, r = 0), or an integer plus or minus the
\* length of a snapped line (r = 2 len^2 on an axis, r = len^2 on a diagonal,
\* where len * cos(pi/4) = sqrt(len^2 / 2)).  A perfect square is folded into
\* i, so equal numbers have equal representations.
Num(i) == [i |-> i, s |-> 0, r |-> 0]
IsSquare(n) == \E k \in 0..n : k * k = n
Sqrt(n) == CHOOSE k \in 0..n : k * k = n
Surd(i, s, r) ==
    IF s = 0 \/ r = 0 THEN Num(i)
    ELSE IF r % 2 = 0 /\ IsSquare(r \div 2) THEN Num(i + s * Sqrt(r \div 2))
    ELSE [i |-> i, s |-> s, r |-> r]

\* The vector from the start point (x0, y0) to the end point (x1, y1), as
\* (a, b) * sqrt(r / 2) with integers a, b: an integer vector (r = 2), or
\* what a snapped line has, the components 0 or plus or minus sqrt(r / 2).
Delta(shape) ==
    IF shape.x1.s = 0 /\ shape.y1.s = 0
    THEN [a |-> shape.x1.i - shape.x0, b |-> shape.y1.i - shape.y0, r |-> 2]
    ELSE CASE shape.x1.s # 0 /\ shape.y1.s # 0
                 /\ shape.x1.i = shape.x0 /\ shape.y1.i = shape.y0
                 /\ shape.x1.r = shape.y1.r
                -> [a |-> shape.x1.s, b |-> shape.y1.s, r |-> shape.x1.r]
           [] shape.x1.s # 0 /\ shape.y1.s = 0
                 /\ shape.x1.i = shape.x0 /\ shape.y1.i = shape.y0
                -> [a |-> shape.x1.s, b |-> 0, r |-> shape.x1.r]
           [] shape.x1.s = 0 /\ shape.y1.s # 0
                 /\ shape.x1.i = shape.x0 /\ shape.y1.i = shape.y0
                -> [a |-> 0, b |-> shape.y1.s, r |-> shape.y1.r]
\* Math.hypot(dx, dy) squared (line 219), for (dx, dy) = (a, b) * sqrt(r / 2)
\* (mutant: the length is taken along x only)
LenSq_m(a, b, r) == (sq(a) * r) \div 2
LenSq(a, b, r) == ((sq(a) + sq(b)) * r) \div 2
\* Math.min(Math.abs(w), Math.abs(h)) (lines 224-225)
\* (mutant: the larger side is taken)
Side_m(w, h) == Max2(Abs(w), Abs(h))
Side(w, h) == Min2(Abs(w), Abs(h))

\* The branches of constrainWithShift after `if (!shift) return shape`
\* (lines 195-226).
Constrained(shape) ==
    IF shape.shape = "line"
    THEN LET d == Delta(shape)
             best == snapScan(d.a, d.b, 2, 1)
             len2 == LenSq(d.a, d.b, d.r)
             \* r as in Surd
             r == IF IsDiagonal(best) THEN len2 ELSE 2 * len2
         IN  [shape EXCEPT !.x1 = Surd(shape.x0, SnapDirs[best][1], r),
                           !.y1 = Surd(shape.y0, SnapDirs[best][2], r)]
    ELSE \* a rect or an ellipse has integer corners
         LET w == shape.x1.i - shape.x0
             h == shape.y1.i - shape.y0
             sideX == Sign(w) * Side(w, h)
             sideY == Sign(h) * Side(w, h)
         IN  [shape EXCEPT !.x1 = Num(shape.x0 + sideX), !.y1 = Num(shape.y0 + sideY)]

\* constrainWithShift (lines 193-227)
\* (mutant: the shape is constrained whether or not shift is held)
constrainWithShift_m(shape, shift) == Constrained(shape)
constrainWithShift(shape, shift) == IF ~shift THEN shape ELSE Constrained(shape)

\* getPos (lines 649-657): CSS pixels to device pixels, pressure clamped.
getPos(e) ==
    [x |-> e.clientX * Dpr,
     y |-> e.clientY * Dpr,
     p |-> clamp(IF e.pressure = 0 THEN DefaultPressure ELSE e.pressure,
                 MinPressure, MaxPressure)]

NoShape == [kind |-> "none"]

VARIABLES
    ops,            \* useState<Op[]>: the Document
    redo,           \* useState<Op[]>: the redo stack, next Op to redo first
    layers,         \* useState<Layer[]>, bottom layer first
    currentLayer,   \* useState<number>
    tool,           \* useState<Tool>
    smooth,         \* useState(true): the "smooth" setting
    shapeAssist,    \* useState(true)
    shiftKey,       \* useState(false)
    isDrawing,      \* useState(false)
    currentStroke,  \* "null", or "ref": a reference to the StrokeOp tagged held
    currentShape,   \* NoShape or the provisional ShapeOp
    textEditor,     \* [visible, x, y, value]
    preview,        \* what the preview canvas shows: NoShape or a ShapeOp
    pendingLoads,   \* FileReader reads in flight: the files' contents
    pendingImports, \* Image decodes in flight: [layer, width, height]
    saved,          \* the file handleSaveJSON downloaded last, if any
    savedFrom,      \* the Document (its Ops' fields) that file was saved from
    ev,             \* the handler that ran last: [name, ok, n]
    trail,          \* Documents before each undo not yet redone, latest first
    maxIssued,      \* the greatest layer id ever in the layer list
    background,     \* useState<string>("plain")
    ctx,            \* the drawing state of the main canvas' 2d context
    canvas,         \* the paint calls of the last renderAll, in order
    called          \* the last call of a pure function: [fn, args, result]

vars == <<ops, redo, layers, currentLayer, tool, smooth, shapeAssist, shiftKey,
          isDrawing, currentStroke, currentShape, textEditor, preview,
          pendingLoads, pendingImports, saved, savedFrom, ev, trail, maxIssued,
          background, ctx, canvas, called>>

settingVars == <<tool, smooth, shapeAssist, shiftKey>>
gestureVars == <<isDrawing, currentStroke, currentShape>>
layerVars == <<layers, currentLayer, maxIssued>>
ioVars == <<pendingLoads, pendingImports, saved, savedFrom>>
renderVars == <<background, ctx, canvas>>
pureVars == <<called>>
NoCall == [fn |-> "none"]

\* A 2d context as the canvas element creates it, and as an assignment to
\* canvas.width leaves it (line 443).  globalAlpha is in units of 1 / 10000
\* (alpha and opacity are hundredths), lineWidth an exact rational.
DefaultCtx ==
    [globalCompositeOperation |-> "source-over",
     globalAlpha |-> 100 * 100,
     lineWidth |-> Rat(1, 1),
     lineCap |-> "butt",
     lineJoin |-> "miter",
     strokeStyle |-> "#000000",
     fillStyle |-> "#000000",
     font |-> [px |-> 10, family |-> "sans-serif"]]


\* ------------------------------------------------------------------- state
Init ==
    /\ ops = <<>>
    /\ redo = <<>>
    /\ layers = <<[id |-> 0, name |-> "Layer 1", visible |-> TRUE, opacity |-> 100]>>
    /\ currentLayer = 0
    /\ tool = "pen"
    /\ smooth = TRUE
    /\ shapeAssist = TRUE
    /\ shiftKey = FALSE
    /\ isDrawing = FALSE
    /\ currentStroke = "null"
    /\ currentShape = NoShape
    /\ textEditor = [visible |-> FALSE, x |-> 0, y |-> 0, value |-> ""]
    /\ preview = NoShape
    /\ pendingLoads = <<>>
    /\ pendingImports = <<>>
    /\ saved = <<>>
    /\ savedFrom = <<>>
    /\ ev = [name |-> "init", ok |-> TRUE, n |-> 0, id |-> 0, was |-> 0]
    /\ trail = <<>>
    /\ maxIssued = 0
    /\ background = "plain"
    /\ ctx = DefaultCtx
    /\ canvas = <<>>
    /\ called = NoCall

\* The handler `name` ran; ok and n say which branch it took (n: how many
\* Ops it added or removed), id is the layer id it was called with and was
\* the current layer it found.
Event(name, ok, n) == [name |-> name, ok |-> ok, n |-> n, id |-> 0, was |-> 0]
\* Any handler but undo / redo ends a run of undos.  The pixels of the main
\* canvas are an output that no handler reads: the handlers of the Document,
\* the layers and the files are modelled without their repaint, which the
\* actions of the renderer section model.
Did(name, ok, n) ==
    /\ ev' = Event(name, ok, n)
    /\ trail' = <<>>
    /\ UNCHANGED <<renderVars, pureVars>>

\* No Op of s is the object currentStroke refers to any more.
Unhold(s) ==
    [i \in DOMAIN s |->
        IF s[i].kind = "stroke" THEN [s[i] EXCEPT !.held = FALSE] ELSE s[i]]

\* The model builds no Document ++ redoStack longer than MaxOps.
Room == Len(ops) + Len(redo) < MaxOps

\* ------------------------------------------------------- tool settings
SetTool(t) ==
    /\ t # tool
    /\ tool' = t
    /\ Did("setTool", TRUE, 0)
    /\ UNCHANGED <<ops, redo, layerVars, smooth, shapeAssist, shiftKey,
                   gestureVars, textEditor, preview, ioVars>>

SetSmooth ==
    /\ smooth' = ~smooth
    /\ Did("setSmooth", TRUE, 0)
    /\ UNCHANGED <<ops, redo, layerVars, tool, shapeAssist, shiftKey,
                   gestureVars, textEditor, preview, ioVars>>

SetShapeAssist ==
    /\ shapeAssist' = ~shapeAssist
    /\ Did("setShapeAssist", TRUE, 0)
    /\ UNCHANGED <<ops, redo, layerVars, tool, smooth, shiftKey,
                   gestureVars, textEditor, preview, ioVars>>

\* onKey / onUp for the Shift key (lines 472, 490)
SetShiftKey ==
    /\ shiftKey' = ~shiftKey
    /\ Did("setShiftKey", TRUE, 0)
    /\ UNCHANGED <<ops, redo, layerVars, tool, smooth, shapeAssist,
                   gestureVars, textEditor, preview, ioVars>>

\* ------------------------------------------------------------- gestures
\* (mutant: the highlighter's stroke takes the alpha of the opacity slider)
NewStroke_m(pos) ==
    [kind |-> "stroke",
     tool |-> tool,
     color |-> IF tool = "eraser" THEN "#000000" ELSE color,
     size |-> size,
     alpha |-> alpha,
     composite |-> IF tool = "eraser" THEN "destination-out" ELSE "source-over",
     points |-> <<pos>>,
     smooth |-> smooth,
     brushType |-> brushType,
     layer |-> currentLayer,
     held |-> TRUE]
\* The StrokeOp of pointerDown (lines 675-686)
NewStroke(pos) ==
    [kind |-> "stroke",
     tool |-> tool,
     color |-> IF tool = "eraser" THEN "#000000" ELSE color,
     size |-> size,
     alpha |-> IF tool = "highlighter" THEN HighlighterAlpha ELSE alpha,
     composite |-> IF tool = "eraser" THEN "destination-out" ELSE "source-over",
     points |-> <<pos>>,
     smooth |-> smooth,
     brushType |-> brushType,
     layer |-> currentLayer,
     held |-> TRUE]

\* The ShapeOp of pointerDown (lines 690-703)
NewShape(pos) ==
    [kind |-> "shape",
     shape |-> IF tool = "line" THEN "line" ELSE IF tool = "rect" THEN "rect" ELSE "ellipse",
     color |-> color,
     size |-> size,
     alpha |-> alpha,
     composite |-> "source-over",
     x0 |-> pos.x,
     y0 |-> pos.y,
     x1 |-> Num(pos.x),
     y1 |-> Num(pos.y),
     layer |-> currentLayer]

\* setRedo([]) of pointerDown (line 664)
RedoAfterPointerDown(r) == <<>>

\* pointerDown (lines 661-706)
PointerDown(e) ==
    LET pos == getPos(e) IN
    IF e.button # 0
    THEN /\ Did("pointerDown", FALSE, 0)
         /\ UNCHANGED <<ops, redo, layerVars, settingVars, gestureVars,
                        textEditor, preview, ioVars>>
    ELSE /\ redo' = RedoAfterPointerDown(redo)
         /\ IF tool = "text"
            THEN /\ textEditor' = [visible |-> TRUE, x |-> pos.x, y |-> pos.y, value |-> ""]
                 /\ Did("pointerDown", TRUE, 0)
                 /\ UNCHANGED <<ops, gestureVars, preview>>
            ELSE /\ isDrawing' = TRUE
                 /\ IF tool \in FREEHAND_TOOLS
                    THEN /\ Len(ops) < MaxOps
                         /\ currentStroke' = "ref"
                         /\ ops' = Append(Unhold(ops), NewStroke(pos))
                         /\ preview' = NoShape
                         /\ Did("pointerDown", TRUE, 1)
                         /\ UNCHANGED currentShape
                    ELSE IF tool # "select"
                    THEN /\ currentShape' = NewShape(pos)
                         /\ Did("pointerDown", TRUE, 0)
                         /\ UNCHANGED <<ops, currentStroke, preview>>
                    ELSE /\ Did("pointerDown", TRUE, 0)
                         /\ UNCHANGED <<ops, currentStroke, currentShape, preview>>
                 /\ UNCHANGED textEditor
         /\ UNCHANGED <<layerVars, settingVars, ioVars>>

\* The setOps updater of pointerMove (lines 712-719): the last element, if
\* it is a stroke, has pos pushed onto its points in place.
PushPoint(prev, pos) ==
    IF prev # <<>> /\ Last(prev).kind = "stroke"
    THEN [prev EXCEPT ![Len(prev)].points = Append(@, pos)]
    ELSE prev

\* pointerMove (lines 708-755)
PointerMove(e) ==
    LET pos == getPos(e) IN
    /\ IF ~isDrawing
       THEN /\ Did("pointerMove", FALSE, 0)
            /\ UNCHANGED <<ops, preview>>
       ELSE IF currentStroke # "null"
       THEN /\ (ops # <<>> /\ Last(ops).kind = "stroke") => Len(Last(ops).points) < MaxPts
            /\ ops' = PushPoint(ops, pos)
            /\ preview' = NoShape
            /\ Did("pointerMove", TRUE, 1)
       ELSE IF currentShape # NoShape
       THEN /\ preview' =
                 LET base == [currentShape EXCEPT !.x1 = Num(pos.x), !.y1 = Num(pos.y)]
                 IN  IF shapeAssist THEN constrainWithShift(base, shiftKey) ELSE base
            /\ Did("pointerMove", TRUE, 2)
            /\ UNCHANGED ops
       ELSE /\ Did("pointerMove", TRUE, 0)
            /\ UNCHANGED <<ops, preview>>
    /\ UNCHANGED <<redo, layerVars, settingVars, gestureVars, textEditor, ioVars>>

\* The setOps updater of pointerUp (lines 764-769): `last === stroke` holds
\* when the last element is the held StrokeOp, whose smooth flag was read
\* at line 762.
FinishStroke(prev) ==
    IF prev # <<>> /\ Last(prev).kind = "stroke" /\ Last(prev).held /\ Last(prev).smooth
    THEN [prev EXCEPT ![Len(prev)].points = simplifyRDP(@, [n |-> EpsNum, d |-> EpsDen])]
    ELSE prev

\* The Document after the shape branch of pointerUp (lines 773-775)
CommitShape(prev, shape) ==
    Append(prev, IF shapeAssist THEN constrainWithShift(shape, shiftKey) ELSE shape)

\* pointerUp (lines 757-781), the handler of pointerup, pointerleave and
\* pointercancel (lines 1232-1234); kind names the event.
PointerUp(kind) ==
    /\ isDrawing' = FALSE
    /\ IF currentStroke # "null"
       THEN /\ currentStroke' = "null"
            /\ ops' = Unhold(FinishStroke(ops))
            /\ redo' = Unhold(redo)
            /\ preview' = NoShape
            /\ Did(kind, TRUE, 1)
            /\ UNCHANGED currentShape
       ELSE IF currentShape # NoShape
       THEN /\ Room
            /\ ops' = CommitShape(ops, currentShape)
            /\ currentShape' = NoShape
            /\ preview' = NoShape
            /\ Did(kind, TRUE, 2)
            /\ UNCHANGED <<redo, currentStroke>>
       ELSE /\ Did(kind, FALSE, 0)
            /\ UNCHANGED <<ops, redo, currentStroke, currentShape, preview>>
    /\ UNCHANGED <<layerVars, settingVars, textEditor, ioVars>>

\* ---------------------------------------------------------- text editor
\* String.prototype.trim on the inputs of TextInputs
Trim(v) == IF v = " " THEN "" ELSE v

\* onChange of the floating input (line 1249)
TypeText(v) ==
    /\ textEditor.visible
    /\ v # textEditor.value
    /\ textEditor' = [textEditor EXCEPT !.value = v]
    /\ Did("typeText", TRUE, 0)
    /\ UNCHANGED <<ops, redo, layerVars, settingVars, gestureVars, preview, ioVars>>

\* The TextOp of commitText (lines 789-798)
NewText(value) ==
    [kind |-> "text",
     text |-> value,
     x |-> textEditor.x,
     y |-> textEditor.y,
     color |-> color,
     size |-> Max2(MinFont, size * FontFactor),
     font |-> TextFont,
     layer |-> currentLayer]

\* commitText(textEditor.value) (lines 784-801), on blur or Enter
CommitText ==
    /\ textEditor.visible
    /\ IF Trim(textEditor.value) = ""
       THEN /\ textEditor' = [textEditor EXCEPT !.visible = FALSE, !.value = ""]
            /\ Did("commitText", FALSE, 0)
            /\ UNCHANGED <<ops, preview>>
       ELSE /\ Room
            /\ ops' = Append(ops, NewText(textEditor.value))
            /\ textEditor' = [visible |-> FALSE, x |-> 0, y |-> 0, value |-> ""]
            /\ preview' = NoShape
            /\ Did("commitText", TRUE, 1)
    /\ UNCHANGED <<redo, layerVars, settingVars, gestureVars, ioVars>>

\* Escape in the floating input (lines 1256-1258)
CancelText ==
    /\ textEditor.visible
    /\ textEditor' = [visible |-> FALSE, x |-> 0, y |-> 0, value |-> ""]
    /\ Did("cancelText", TRUE, 0)
    /\ UNCHANGED <<ops, redo, layerVars, settingVars, gestureVars, preview, ioVars>>

\* -------------------------------------------------------------- history
\* handleUndo's updaters (lines 807-808)
UndoOps(prev) == Front(prev)
\* (mutant: the undone Op is put at the back of the redo stack)
RedoAfterUndo_m(prev, r) == Append(r, Last(prev))
RedoAfterUndo(prev, r) == <<Last(prev)>> \o r

\* (mutant: handleUndo without the `prev.length === 0` guard of line 806:
\* prev[prev.length - 1] is then undefined and is pushed on the redo stack)
HandleUndo_m ==
    /\ ops' = IF ops = <<>> THEN <<>> ELSE UndoOps(ops)
    /\ redo' = IF ops = <<>> THEN <<[kind |-> "undefined"]>> \o redo
                ELSE RedoAfterUndo(ops, redo)
    /\ preview' = NoShape
    /\ ev' = Event("undo", ops # <<>>, 1)
    /\ trail' = <<ops>> \o trail
    /\ UNCHANGED <<layerVars, settingVars, gestureVars, textEditor, ioVars,
                   renderVars, pureVars>>

\* handleUndo (lines 804-811)
HandleUndo ==
    /\ IF ops = <<>>
       THEN /\ ev' = Event("undo", FALSE, 0)
            /\ UNCHANGED <<ops, redo, preview, trail>>
       ELSE /\ ops' = UndoOps(ops)
            /\ redo' = RedoAfterUndo(ops, redo)
            /\ preview' = NoShape
            /\ ev' = Event("undo", TRUE, 1)
            /\ trail' = <<ops>> \o trail
    /\ UNCHANGED <<layerVars, settingVars, gestureVars, textEditor, ioVars,
                   renderVars, pureVars>>

\* handleRedo's updaters (lines 815-817)
\* (mutant: the redone Op is put at the front of the Document)
RedoOps_m(o, r) == <<Head(r)>> \o o
RedoOps(o, r) == Append(o, Head(r))
RedoAfterRedo(r) == Tail(r)

\* handleRedo (lines 812-819)
HandleRedo ==
    /\ IF redo = <<>>
       THEN /\ ev' = Event("redo", FALSE, 0)
            /\ UNCHANGED <<ops, redo, preview, trail>>
       ELSE /\ ops' = RedoOps(ops, redo)
            /\ redo' = RedoAfterRedo(redo)
            /\ preview' = NoShape
            /\ ev' = Event("redo", TRUE, 1)
            /\ trail' = IF trail = <<>> THEN <<>> ELSE Tail(trail)
    /\ UNCHANGED <<layerVars, settingVars, gestureVars, textEditor, ioVars,
                   renderVars, pureVars>>

\* handleClear (lines 820-825); confirmed is the answer to confirm()
HandleClear(confirmed) ==
    /\ IF confirmed
       THEN /\ ops' = <<>>
            /\ redo' = <<>>
            /\ preview' = NoShape
       ELSE UNCHANGED <<ops, redo, preview>>
    /\ Did("clear", confirmed, 0)
    /\ UNCHANGED <<layerVars, settingVars, gestureVars, textEditor, ioVars>>

\* ---------------------------------------------------------- save / load
\* A file's text: wellFormed says whether JSON.parse accepts it, and then
\* isArray and items describe the value it denotes.
Unparseable == [wellFormed |-> FALSE, isArray |-> FALSE, items |-> <<>>]
NotAnArray == [wellFormed |-> TRUE, isArray |-> FALSE, items |-> <<>>]

\* JSON.stringify of one Op: its own enumerable data fields; the identity
\* of the object is not part of the text, and an HTMLImageElement has no
\* enumerable own properties: its text is "{}", an object without fields.
EmptyObject == [fields |-> {}]
StringifyOp(op) ==
    LET data == [f \in DOMAIN op \ {"held"} |-> op[f]]
    IN  IF op.kind = "image" THEN [data EXCEPT !.img = EmptyObject] ELSE data

\* (mutant: the Document is stringified unfiltered)
IsSerializable_m(op) == TRUE
\* The filter of line 839
IsSerializable(op) == op.kind # "image"

\* JSON.stringify(serializable) (lines 839-840)
Stringify(document) ==
    LET serializable == SelectSeq(document, IsSerializable)
    IN  [wellFormed |-> TRUE,
         isArray |-> TRUE,
         items |-> [i \in DOMAIN serializable |-> StringifyOp(serializable[i])]]

\* JSON.parse of one array element: a fresh object, which no state refers to.
ParseOp(item) ==
    IF item.kind = "stroke"
    THEN [f \in DOMAIN item \cup {"held"} |-> IF f = "held" THEN FALSE ELSE item[f]]
    ELSE item

\* JSON.parse(String(reader.result)) for a well-formed array text
Parse(text) == [i \in DOMAIN text.items |-> ParseOp(text.items[i])]

\* handleSaveJSON (lines 838-847): the download replaces the saved file.
HandleSaveJSON ==
    /\ saved' = <<Stringify(ops)>>
    /\ savedFrom' = Unhold(ops)
    /\ Did("saveJSON", TRUE, 0)
    /\ UNCHANGED <<ops, redo, layerVars, settingVars, gestureVars, textEditor,
                   preview, pendingLoads, pendingImports>>

\* A document saved in an earlier session, when a layer 1 existed.
EarlierFile ==
    [wellFormed |-> TRUE,
     isArray |-> TRUE,
     items |-> <<[kind |-> "text", text |-> "hi", x |-> 0, y |-> 0, color |-> color,
                  size |-> Max2(MinFont, size * FontFactor), font |-> TextFont,
                  layer |-> 1]>>]
\* The files the user can pick: the one saved last, and two that are not
\* documents.
Files == {saved[i] : i \in DOMAIN saved} \cup {Unparseable, NotAnArray}

\* handleLoadJSON (lines 848-862) up to reader.readAsText(file)
HandleLoadJSON(file) ==
    /\ Len(pendingLoads) < MaxPending
    /\ pendingLoads' = Append(pendingLoads, file)
    /\ Did("loadJSON", TRUE, 0)
    /\ UNCHANGED <<ops, redo, layerVars, settingVars, gestureVars, textEditor,
                   preview, pendingImports, saved, savedFrom>>

Without(s, i) == SubSeq(s, 1, i - 1) \o SubSeq(s, i + 1, Len(s))

\* JSON.parse does not throw and Array.isArray(parsed) (lines 852-854)
\* (mutant: the Array.isArray validation is missing)
Accepts_m(text) == text.wellFormed
Accepts(text) == text.wellFormed /\ text.isArray

\* reader.onload (lines 850-860) of the i-th pending read; ok = FALSE is
\* the catch branch, which shows alert("Invalid JSON file").
LoadComplete(i) ==
    LET text == pendingLoads[i] IN
    /\ pendingLoads' = Without(pendingLoads, i)
    /\ IF Accepts(text)
       THEN /\ ops' = Parse(text)
            /\ redo' = <<>>
            /\ preview' = NoShape
            /\ Did("loadComplete", TRUE, Len(text.items))
       ELSE /\ Did("loadComplete", FALSE, 0)
            /\ UNCHANGED <<ops, redo, preview>>
    /\ UNCHANGED <<layerVars, settingVars, gestureVars, textEditor,
                   pendingImports, saved, savedFrom>>

\* --------------------------------------------------------- image import
\* The numbers of handleImageImport are IEEE 754 doubles, and its divisions,
\* products and differences round to the nearest double, ties to even.  A
\* finite double is (-1)^neg * m * 2^exp, m an odd integer of at most
\* Precision bits written in binary, most significant bit first (zero: no
\* bits, exp = 0); equal doubles have equal representations.  The integers
\* that enter (canvas and image sizes) are below 2^15.
Zero == [neg |-> FALSE, bits |-> <<>>, exp |-> 0]
Zeros(n) == [i \in 1..n |-> 0]
BitLen(n) == CHOOSE k \in 0..30 : n < 2^k /\ (k = 0 \/ n >= 2^(k - 1))
BitsOf(n) == [i \in 1..BitLen(n) |-> (n \div 2^(BitLen(n) - i)) % 2]
Ones(bits) == {i \in 1..Len(bits) : bits[i] = 1}
First(S) == CHOOSE i \in S : \A j \in S : i <= j
Final(S) == CHOOSE i \in S : \A j \in S : i >= j
StripLeading(bits) ==
    IF Ones(bits) = {} THEN <<>> ELSE SubSeq(bits, First(Ones(bits)), Len(bits))
Canon(neg, bits, exp) ==
    IF Ones(bits) = {} THEN Zero
    ELSE [neg |-> neg,
          bits |-> SubSeq(bits, First(Ones(bits)), Final(Ones(bits))),
          exp |-> exp + Len(bits) - Final(Ones(bits))]
\* bits + 1
Increment(bits) ==
    LET zeros == (1..Len(bits)) \ Ones(bits) IN
    IF zeros = {} THEN <<1>> \o Zeros(Len(bits))
    ELSE [i \in 1..Len(bits) |->
             IF i < Final(zeros) THEN bits[i] ELSE IF i = Final(zeros) THEN 1 ELSE 0]
\* The double nearest to (-1)^neg * bits * 2^exp, ties to even
Round(neg, bits, exp) ==
    LET b == StripLeading(bits) IN
    IF Len(b) <= Precision THEN Canon(neg, b, exp)
    ELSE LET kept == SubSeq(b, 1, Precision)
             half == b[Precision + 1] = 1
             more == \E i \in (Precision + 2)..Len(b) : b[i] = 1
             up == half /\ (more \/ kept[Precision] = 1)
         IN  Canon(neg, IF up THEN Increment(kept) ELSE kept, exp + Len(b) - Precision)
FromInt(n) == Canon(FALSE, BitsOf(n), 0)
\* Numerals are added and multiplied in limbs of 15 bits, least significant
\* limb first.
Limb == 2^15
RECURSIVE ValueOf(_)
ValueOf(bits) ==
    IF bits = <<>> THEN 0
    ELSE 2 * ValueOf(SubSeq(bits, 1, Len(bits) - 1)) + bits[Len(bits)]
Limbs(bits) ==
    [j \in 1..((Len(bits) + 14) \div 15) |->
        ValueOf(SubSeq(bits, Max2(1, Len(bits) - 15 * j + 1), Len(bits) - 15 * (j - 1)))]
FromLimbs(limbs) ==
    [i \in 1..(15 * Len(limbs)) |->
        LET p == 15 * Len(limbs) - i
        IN  (limbs[p \div 15 + 1] \div 2^(p % 15)) % 2]
\* (r * 2^k) mod b, for r < b < 2^16
RECURSIVE ShiftRem(_, _, _)
ShiftRem(r, b, k) ==
    IF k <= 15 THEN (r * 2^k) % b ELSE ShiftRem((r * Limb) % b, b, k - 15)
\* a / b for positive integers a, b: the bits before the binary point, then
\* enough bits after it to fill the precision and one more, then a 1 that
\* stands for a remainder that is not zero
Quotient(a, b) ==
    LET whole == BitsOf(a \div b)
        n == Precision + 1 + BitLen(b)
        frac == [k \in 1..n |-> (2 * ShiftRem(a % b, b, k - 1)) \div b]
        rest == IF ShiftRem(a % b, b, n) # 0 THEN <<1>> ELSE <<>>
    IN  Round(FALSE, whole \o frac \o rest, -(n + Len(rest)))
RECURSIVE TimesLimbs(_, _, _)
TimesLimbs(limbs, n, carry) ==
    IF limbs = <<>>
    THEN IF carry = 0 THEN <<>> ELSE <<carry % Limb>> \o TimesLimbs(<<>>, n, carry \div Limb)
    ELSE <<(limbs[1] * n + carry) % Limb>>
         \o TimesLimbs(Tail(limbs), n, (limbs[1] * n + carry) \div Limb)
\* n * f for a positive integer n and a double f
Product(n, f) == Round(f.neg, FromLimbs(TimesLimbs(Limbs(f.bits), n, 0)), f.exp)
\* The numerals of two non-negative doubles over their smaller exponent, at
\* equal length
Aligned(f, g) ==
    LET e == Min2(f.exp, g.exp)
        a == f.bits \o Zeros(f.exp - e)
        b == g.bits \o Zeros(g.exp - e)
        n == Max2(Len(a), Len(b))
    IN  [a |-> Zeros(n - Len(a)) \o a, b |-> Zeros(n - Len(b)) \o b, exp |-> e]
NumeralLess(a, b) ==
    \E i \in 1..Len(a) : a[i] < b[i] /\ \A j \in 1..(i - 1) : a[j] = b[j]
\* f < g for non-negative doubles
Less(f, g) == LET al == Aligned(f, g) IN NumeralLess(al.a, al.b)
\* Math.min
MathMin(f, g) == IF Less(g, f) THEN g ELSE f
\* a - b - borrow in limbs, for a >= b of equal length
RECURSIVE MinusLimbs(_, _, _)
MinusLimbs(a, b, borrow) ==
    IF a = <<>> THEN <<>>
    ELSE <<(a[1] - b[1] - borrow + Limb) % Limb>>
         \o MinusLimbs(Tail(a), Tail(b), IF a[1] - b[1] - borrow < 0 THEN 1 ELSE 0)
\* f - g for non-negative doubles
Difference(f, g) ==
    LET al == Aligned(f, g) IN
    IF NumeralLess(al.a, al.b)
    THEN Round(TRUE, FromLimbs(MinusLimbs(Limbs(al.b), Limbs(al.a), 0)), al.exp)
    ELSE Round(FALSE, FromLimbs(MinusLimbs(Limbs(al.a), Limbs(al.b), 0)), al.exp)
\* f / 2
Half(f) == IF f = Zero THEN Zero ELSE [f EXCEPT !.exp = @ - 1]

\* The ImageOp of img.onload (lines 870-884) on a canvas of w x h pixels;
\* layer is the currentLayer the closure of handleImageImport captured.
FitImage(w, h, img, layer) ==
    LET scale == MathMin(MathMin(Quotient(w, img.width), Quotient(h, img.height)),
                         FromInt(1))
        iw == Product(img.width, scale)
        ih == Product(img.height, scale)
    IN  [kind |-> "image",
         img |-> [width |-> img.width, height |-> img.height],
         x |-> Half(Difference(FromInt(w), iw)),
         y |-> Half(Difference(FromInt(h), ih)),
         w |-> iw,
         h |-> ih,
         layer |-> layer]
\* img.onload on the canvas of CanvasW x CanvasH pixels: the fit of each image
\* size, computed once
FittedImages == [img \in ImageSizes |-> FitImage(CanvasW, CanvasH, img, 0)]
NewImage(img, layer) ==
    [FittedImages[[width |-> img.width, height |-> img.height]] EXCEPT !.layer = layer]

\* handleImageImport (lines 865-889) up to img.src = url
HandleImageImport(img) ==
    /\ Len(pendingImports) < MaxPending
    /\ pendingImports' = Append(pendingImports,
                                [layer |-> currentLayer, width |-> img.width,
                                 height |-> img.height])
    /\ Did("imageImport", TRUE, 0)
    /\ UNCHANGED <<ops, redo, layerVars, settingVars, gestureVars, textEditor,
                   preview, pendingLoads, saved, savedFrom>>

\* The setOps updater of img.onload (line 885)
\* (mutant: the Image Op is put first)
ConcatImage_m(prev, op) == <<op>> \o prev
ConcatImage(prev, op) == Append(prev, op)

\* img.onload (lines 869-887) of the i-th pending decode
ImageLoaded(i) ==
    LET imp == pendingImports[i] IN
    /\ Room
    /\ pendingImports' = Without(pendingImports, i)
    /\ ops' = ConcatImage(ops, NewImage(imp, imp.layer))
    /\ preview' = NoShape
    /\ Did("imageLoaded", TRUE, 1)
    /\ UNCHANGED <<redo, layerVars, settingVars, gestureVars, textEditor,
                   pendingLoads, saved, savedFrom>>

\* --------------------------------------------------------------- layers
LayerIds == {layers[i].id : i \in DOMAIN layers}
MaxOf(S) == CHOOSE m \in S : \A k \in S : k <= m

\* newId of addLayer (line 893)
NewLayerId(ls) ==
    IF Len(ls) > 0 THEN MaxOf({ls[i].id : i \in DOMAIN ls}) + 1 ELSE 0

LayerName(k) ==
    CASE k = 1 -> "Layer 1" [] k = 2 -> "Layer 2" [] k = 3 -> "Layer 3"
      [] k = 4 -> "Layer 4" [] OTHER -> "Layer 5"

\* addLayer (lines 892-897)
AddLayer ==
    LET newId == NewLayerId(layers) IN
    /\ Len(layers) < MaxLayers
    /\ newId <= MaxLayerId
    /\ layers' = Append(layers, [id |-> newId, name |-> LayerName(Len(layers) + 1),
                                 visible |-> TRUE, opacity |-> 100])
    /\ currentLayer' = newId
    /\ maxIssued' = Max2(maxIssued, newId)
    /\ preview' = NoShape
    /\ Did("addLayer", TRUE, newId)
    /\ UNCHANGED <<ops, redo, settingVars, gestureVars, textEditor, ioVars>>

\* The layer list and the Document of deleteLayer (lines 900-901)
LayersWithout(ls, id) == LET Keep(l) == l.id # id IN SelectSeq(ls, Keep)
\* (mutant: the filter keeps the deleted layer's Ops instead)
OpsWithoutLayer_m(prev, id) == LET Keep(op) == op.layer = id IN SelectSeq(prev, Keep)
OpsWithoutLayer(prev, id) == LET Keep(op) == op.layer # id IN SelectSeq(prev, Keep)
\* (mutant: the current layer is left as it is)
CurrentAfterDelete_m(ls, cur, id) == cur
\* The current layer of deleteLayer (lines 902-905)
CurrentAfterDelete(ls, cur, id) ==
    IF cur = id
    THEN LET remaining == LayersWithout(ls, id)
         IN  IF Len(remaining) > 0 THEN remaining[1].id ELSE 0
    ELSE cur

\* (mutant: the Ops deleteLayer removes are pushed on the redo stack)
DeleteLayer_m(id) ==
    /\ trail' = <<>>
    /\ IF Len(layers) <= 1
       THEN /\ ev' = [Event("deleteLayer", FALSE, 0) EXCEPT !.id = id, !.was = currentLayer]
            /\ UNCHANGED <<ops, redo, layers, currentLayer, preview>>
       ELSE /\ layers' = LayersWithout(layers, id)
            /\ ops' = OpsWithoutLayer(ops, id)
            /\ redo' = OpsWithoutLayer_m(ops, id) \o redo
            /\ currentLayer' = CurrentAfterDelete(layers, currentLayer, id)
            /\ preview' = NoShape
            /\ ev' = [Event("deleteLayer", TRUE, Len(ops) - Len(OpsWithoutLayer(ops, id)))
                         EXCEPT !.id = id, !.was = currentLayer]
    /\ UNCHANGED <<maxIssued, settingVars, gestureVars, textEditor, ioVars,
                   renderVars, pureVars>>
\* deleteLayer(id) (lines 898-906), id the id of a row of the layer list
DeleteLayer(id) ==
    /\ trail' = <<>>
    /\ IF Len(layers) <= 1
       THEN /\ ev' = [Event("deleteLayer", FALSE, 0) EXCEPT !.id = id, !.was = currentLayer]
            /\ UNCHANGED <<ops, layers, currentLayer, preview>>
       ELSE /\ layers' = LayersWithout(layers, id)
            /\ ops' = OpsWithoutLayer(ops, id)
            /\ currentLayer' = CurrentAfterDelete(layers, currentLayer, id)
            /\ preview' = NoShape
            /\ ev' = [Event("deleteLayer", TRUE, Len(ops) - Len(OpsWithoutLayer(ops, id)))
                         EXCEPT !.id = id, !.was = currentLayer]
    /\ UNCHANGED <<redo, maxIssued, settingVars, gestureVars, textEditor, ioVars,
                   renderVars, pureVars>>

\* onClick of a layer row (line 1029)
SelectLayer(id) ==
    /\ id # currentLayer
    /\ currentLayer' = id
    /\ Did("selectLayer", TRUE, id)
    /\ UNCHANGED <<ops, redo, layers, maxIssued, settingVars, gestureVars,
                   textEditor, preview, ioVars>>

\* The eye button of a layer row (line 1034)
ToggleVisible(id) ==
    /\ layers' = [i \in DOMAIN layers |->
                    IF layers[i].id = id
                    THEN [layers[i] EXCEPT !.visible = ~layers[i].visible]
                    ELSE layers[i]]
    /\ preview' = NoShape
    /\ Did("toggleVisible", TRUE, id)
    /\ UNCHANGED <<ops, redo, currentLayer, maxIssued, settingVars, gestureVars,
                   textEditor, ioVars>>

\* ---------------------------------------------------------------- renderer
\* The values (Math.random() - 0.5) * 2 takes here (line 177).
NoiseValues == {-1, 0}
\* (a + b) / 2 + noise (lines 171-172, 178-179, 184-185, 601-602)
Mid(a, b, noise) == Rat(a + b + 2 * noise, 2)

\* The attributes of the drawing state that a paint call uses.
Uses(call) ==
    {"globalCompositeOperation", "globalAlpha"}
    \cup (IF call \in {"stroke", "strokeRect"}
          THEN {"lineWidth", "lineCap", "lineJoin", "strokeStyle"}
          ELSE IF call = "fillText" THEN {"fillStyle", "font"}
          ELSE IF call = "paintBackground" THEN {"fillStyle"}
          ELSE {})
\* A call that puts pixels on the main canvas: the drawing state it uses
\* and its arguments (for stroke(), the current path).  from is the index
\* in the Document of the Op that is being painted, 0 for the background.
Paint(call, from, c, args) ==
    [call |-> call, from |-> from, ctx |-> [f \in Uses(call) |-> c[f]], args |-> args]

\* The Math.random() calls of drawSmoothStroke for the Op (line 177)
RandomCalls(op) ==
    IF op.kind = "stroke" /\ ~op.smooth /\ op.brushType = "textured"
          /\ Len(op.points) >= 2
    THEN Len(op.points) - 2
    ELSE 0

\* The loops of drawSmoothStroke (lines 170-174, 176-181, 183-187) from
\* pts[i] on (1-based); noise[i] is the jitter drawn for pts[i].
RECURSIVE brushCurves(_, _, _)
brushCurves(pts, i, noise) ==
    IF i > Len(pts) - 1 THEN <<>>
    ELSE << <<"quadraticCurveTo", pts[i].x, pts[i].y,
              Mid(pts[i].x, pts[i + 1].x, noise[i]),
              Mid(pts[i].y, pts[i + 1].y, noise[i])>> >>
         \o brushCurves(pts, i + 1, noise)

\* drawSmoothStroke (lines 165-191): the path it strokes, <<>> when it
\* returns at line 166.  rnd is the stream of noise values, of which
\* `used` have been consumed.
drawSmoothStroke(pts, brush, rnd, used) ==
    IF Len(pts) < 2 THEN <<>>
    ELSE LET noise == [i \in 2..(Len(pts) - 1) |->
                          IF brush = "textured" THEN rnd[used + i - 1] ELSE 0]
         IN  << <<"moveTo", pts[1].x, pts[1].y>> >>
             \o brushCurves(pts, 2, noise)
             \o << <<"lineTo", pts[Len(pts)].x, pts[Len(pts)].y>> >>

\* The loop of lines 599-606 from pts[i] on: the curves, each from the
\* point before.
RECURSIVE smoothCurves(_, _)
smoothCurves(pts, i) ==
    IF i > Len(pts) THEN <<>>
    ELSE << <<"quadraticCurveTo", pts[i - 1].x, pts[i - 1].y,
              Mid(pts[i - 1].x, pts[i].x, 0), Mid(pts[i - 1].y, pts[i].y, 0)>> >>
         \o smoothCurves(pts, i + 1)
\* ctx.lineWidth of line 603 for the point p
SmoothWidth(op, p) ==
    IF op.tool = "eraser" THEN Rat(op.size, 1) ELSE Rat(op.size * (100 + p.p), 200)

\* ctx.globalCompositeOperation of the image and text branches (lines 572,
\* 578)
\* (mutant: the branches keep the blend mode of the Op painted before)
BlendForBitmap_m(c) == c.globalCompositeOperation
BlendForBitmap(c) == "source-over"
\* One iteration of the loop over layerOps (lines 570-633) for op =
\* ops[from] of the layer `layer`; st is [ctx, paints, used].
paintOp(st, op, from, layer, rnd) ==
    IF op.kind = "image"
    THEN LET c == [st.ctx EXCEPT !.globalCompositeOperation = BlendForBitmap(st.ctx),
                                 !.globalAlpha = 100 * layer.opacity]
         IN  [st EXCEPT !.ctx = c,
                        !.paints = Append(@, Paint("drawImage", from, c,
                                           <<op.img, op.x, op.y, op.w, op.h>>))]
    ELSE IF op.kind = "text"
    THEN LET c == [st.ctx EXCEPT !.globalCompositeOperation = BlendForBitmap(st.ctx),
                                 !.globalAlpha = 100 * layer.opacity,
                                 !.fillStyle = op.color,
                                 !.font = [px |-> op.size, family |-> op.font]]
         IN  [st EXCEPT !.ctx = c,
                        !.paints = Append(@, Paint("fillText", from, c,
                                           <<op.text, op.x, op.y>>))]
    ELSE LET c == [st.ctx EXCEPT !.globalCompositeOperation = op.composite,
                                 !.globalAlpha = op.alpha * layer.opacity,
                                 !.lineCap = "round",
                                 !.lineJoin = "round",
                                 !.strokeStyle = op.color]
         IN
         IF op.kind = "stroke"
         THEN LET pts == op.points IN
              IF pts = <<>> THEN [st EXCEPT !.ctx = c]
              ELSE IF op.smooth
              THEN LET c2 == IF Len(pts) >= 2
                             THEN [c EXCEPT !.lineWidth = SmoothWidth(op, pts[Len(pts)])]
                             ELSE c
                       path == << <<"moveTo", pts[1].x, pts[1].y>> >>
                               \o smoothCurves(pts, 2)
                               \o << <<"lineTo", pts[Len(pts)].x, pts[Len(pts)].y>> >>
                   IN  [st EXCEPT !.ctx = c2,
                                  !.paints = Append(@, Paint("stroke", from, c2, path))]
              ELSE LET c2 == [c EXCEPT !.lineWidth = Rat(op.size, 1)]
                       path == drawSmoothStroke(pts, op.brushType, rnd, st.used)
                   IN  [ctx |-> c2,
                        paints |-> IF path = <<>> THEN st.paints
                                   ELSE Append(st.paints, Paint("stroke", from, c2, path)),
                        used |-> st.used + RandomCalls(op)]
         ELSE LET c2 == [c EXCEPT !.lineWidth = Rat(op.size, 1)]
                  \* a rect or an ellipse has integer corners
                  x == Min2(op.x0, op.x1.i)
                  y == Min2(op.y0, op.y1.i)
                  w2 == Abs(op.x1.i - op.x0)
                  h2 == Abs(op.y1.i - op.y0)
              IN  [st EXCEPT
                     !.ctx = c2,
                     !.paints = Append(@,
                        IF op.shape = "line"
                        THEN Paint("stroke", from, c2,
                                   << <<"moveTo", op.x0, op.y0>>, <<"lineTo", op.x1, op.y1>> >>)
                        ELSE IF op.shape = "rect"
                        THEN Paint("strokeRect", from, c2, <<x, y, w2, h2>>)
                        ELSE Paint("stroke", from, c2,
                                   << <<"ellipse", Rat(2 * x + w2, 2), Rat(2 * y + h2, 2),
                                       Rat(w2, 2), Rat(h2, 2)>> >>))]

\* ops.filter((op) => op.layer === layer.id) (line 569), as indices of ops
\* (mutant: the filter is missing, every layer paints the whole Document)
LayerOps_m(document, layer) == [i \in DOMAIN document |-> i]
LayerOps(document, layer) ==
    LET OnLayer(i) == document[i].layer = layer.id
    IN  SelectSeq([i \in DOMAIN document |-> i], OnLayer)

\* The loop of line 570 over the indices idx, from the k-th on
RECURSIVE paintOps(_, _, _, _, _, _)
paintOps(st, document, idx, k, layer, rnd) ==
    IF k > Len(idx) THEN st
    ELSE paintOps(paintOp(st, document[idx[k]], idx[k], layer, rnd),
                  document, idx, k + 1, layer, rnd)

\* The loop of lines 566-634 over the layers, from the k-th on
RECURSIVE paintLayers(_, _, _, _, _)
paintLayers(st, document, ls, k, rnd) ==
    IF k > Len(ls) THEN st
    ELSE IF ~ls[k].visible THEN paintLayers(st, document, ls, k + 1, rnd)
    ELSE LET c == [st.ctx EXCEPT !.globalAlpha = 100 * ls[k].opacity]
         IN  paintLayers(paintOps([st EXCEPT !.ctx = c], document,
                                  LayerOps(document, ls[k]), 1, ls[k], rnd),
                         document, ls, k + 1, rnd)

\* paintBackground (lines 229-278) inside the save / restore of lines
\* 560-563: the base fill and the pattern bg; the drawing state is restored.
paintBackground(c, bg) ==
    Paint("paintBackground", 0,
          [c EXCEPT !.globalCompositeOperation = "source-over",
                    !.globalAlpha = 100 * 100,
                    !.fillStyle = "#ffffff"],
          <<bg>>)

\* renderAll (lines 552-642) on a context in the drawing state c0, with the
\* noise stream rnd: the paint calls in order and the state it leaves.
renderAll(document, ls, bg, c0, rnd) ==
    paintLayers([ctx |-> c0, paints |-> <<paintBackground(c0, bg)>>, used |-> 0],
                document, ls, 1, rnd)

\* The noise streams a renderAll of the state can consume
RECURSIVE SumRandomCalls(_, _)
SumRandomCalls(document, k) ==
    IF k > Len(document) THEN 0
    ELSE RandomCalls(document[k]) + SumRandomCalls(document, k + 1)
NoiseStreams == [1..SumRandomCalls(ops, 1) -> NoiseValues]

\* resizeCanvas (lines 434-455), by the resize observer and when the
\* component mounts: the assignment to canvas.width resets the drawing
\* state, then renderAll paints.
ResizeCanvas ==
    /\ \E rnd \in NoiseStreams :
          LET r == renderAll(ops, layers, background, DefaultCtx, rnd)
          IN  ctx' = r.ctx /\ canvas' = r.paints
    /\ preview' = NoShape
    /\ ev' = Event("resizeCanvas", TRUE, 0)
    /\ UNCHANGED <<ops, redo, layerVars, settingVars, gestureVars, textEditor,
                   ioVars, trail, background, pureVars>>

\* The background select (line 1066) and the effect of lines 644-646 that
\* follows the change of `background`.
SetBackground(bg) ==
    /\ bg # background
    /\ background' = bg
    /\ \E rnd \in NoiseStreams :
          LET r == renderAll(ops, layers, bg, ctx, rnd)
          IN  ctx' = r.ctx /\ canvas' = r.paints
    /\ preview' = NoShape
    /\ ev' = Event("setBackground", TRUE, 0)
    /\ UNCHANGED <<ops, redo, layerVars, settingVars, gestureVars, textEditor,
                   ioVars, trail, pureVars>>


\* ------------------------------------------------------ specifications
\* Pointer events at the given positions with the given buttons.
PointerEvents(positions, buttons) ==
    {[clientX |-> q.clientX, clientY |-> q.clientY, pressure |-> pr, button |-> b] :
        q \in positions, pr \in Pressures, b \in buttons}
EndKinds == {"pointerup", "pointerleave", "pointercancel"}

\* Gestures, text, undo / redo and image import on the one initial layer.
HistoryTools == {"pen", "line", "text"}
HistoryEvents == PointerEvents({P0}, {0, 2})
Next ==
    \/ \E t \in HistoryTools : SetTool(t)
    \/ \E e \in HistoryEvents : PointerDown(e)
    \/ \E e \in HistoryEvents : PointerMove(e)
    \/ \E kind \in EndKinds : PointerUp(kind)
    \/ \E v \in TextInputs : TypeText(v)
    \/ CommitText
    \/ CancelText
    \/ HandleUndo
    \/ HandleRedo
    \/ \E confirmed \in BOOLEAN : HandleClear(confirmed)
    \/ \E img \in ImageSizes : HandleImageImport(img)
    \/ \E i \in DOMAIN pendingImports : ImageLoaded(i)

Spec == Init /\ [][Next]_vars

\* Layers: add, delete and select, with strokes drawn on them, undo / redo,
\* image import and the load of a file.
LayerEvents == PointerEvents({P0}, {0})
NextLayers ==
    \/ AddLayer
    \/ \E id \in LayerIds : DeleteLayer(id)
    \/ \E id \in LayerIds : SelectLayer(id)
    \/ \E e \in LayerEvents : PointerDown(e)
    \/ \E kind \in EndKinds : PointerUp(kind)
    \/ HandleUndo
    \/ HandleRedo
    \/ \E file \in {EarlierFile, NotAnArray} : HandleLoadJSON(file)
    \/ \E i \in DOMAIN pendingLoads : LoadComplete(i)
    \/ \E img \in ImageSizes : HandleImageImport(img)
    \/ \E i \in DOMAIN pendingImports : ImageLoaded(i)

SpecLayers == Init /\ [][NextLayers]_vars

\* Save and load, on Documents of strokes, texts and images.
NextIO ==
    \/ \E t \in {"pen", "text"} : SetTool(t)
    \/ \E e \in LayerEvents : PointerDown(e)
    \/ PointerUp("pointerup")
    \/ TypeText("hi")
    \/ CommitText
    \/ HandleUndo
    \/ \E img \in ImageSizes : HandleImageImport(img)
    \/ \E i \in DOMAIN pendingImports : ImageLoaded(i)
    \/ HandleSaveJSON
    \/ \E file \in Files : HandleLoadJSON(file)
    \/ \E i \in DOMAIN pendingLoads : LoadComplete(i)

SpecIO == Init /\ [][NextIO]_vars

\* Image imports started on the empty Document, and edits before the decode
\* completes.
ImportTools == {"pen", "rect"}
NextImport ==
    \/ \E t \in ImportTools : SetTool(t)
    \/ \E e \in LayerEvents : PointerDown(e)
    \/ \E e \in LayerEvents : PointerMove(e)
    \/ \E kind \in EndKinds : PointerUp(kind)
    \/ HandleUndo
    \/ HandleRedo
    \/ \E img \in ImageSizes : ops = <<>> /\ HandleImageImport(img)
    \/ \E i \in DOMAIN pendingImports : ImageLoaded(i)

SpecImport == Init /\ [][NextImport]_vars

\* Gestures with every kind of tool (freehand, shape, select): the pointer
\* is pressed at one position and moved to another; with undo.
GestureTools == {"pen", "highlighter", "eraser", "rect", "select"}
GesturePresses == PointerEvents({P0}, {0, 2})
GestureMoves == PointerEvents({P1}, {0})
NextGesture ==
    \/ \E t \in GestureTools : SetTool(t)
    \/ \E e \in GesturePresses : PointerDown(e)
    \/ \E e \in GestureMoves : PointerMove(e)
    \/ \E kind \in EndKinds : PointerUp(kind)
    \/ HandleUndo

SpecGesture == Init /\ [][NextGesture]_vars


\* The renderer on given Documents and layer lists.  The Ops are Ops the
\* gestures, the text editor and the image import create with the settings
\* of the toolbar (tool, smooth, brush, opacity slider); the Layer type admits
\* any opacity (the layers the component creates have opacity 1).
RA == [x |-> 0, y |-> 0, p |-> 50]
RB == [x |-> 2, y |-> 0, p |-> 50]
RC == [x |-> 2, y |-> 2, p |-> 100]
RenderStroke(t, a, sm, brush, pts, l) ==
    [kind |-> "stroke", tool |-> t,
     color |-> IF t = "eraser" THEN "#000000" ELSE color,
     size |-> size,
     alpha |-> IF t = "highlighter" THEN HighlighterAlpha ELSE a,
     composite |-> IF t = "eraser" THEN "destination-out" ELSE "source-over",
     points |-> pts, smooth |-> sm, brushType |-> brush, layer |-> l, held |-> FALSE]
RenderOpsOn(l) ==
    {RenderStroke("pen", 50, TRUE, "smooth", <<RA, RB, RC>>, l),
     RenderStroke("eraser", 50, TRUE, "smooth", <<RA, RB>>, l),
     RenderStroke("highlighter", alpha, FALSE, "textured", <<RA, RB, RC>>, l),
     RenderStroke("pen", alpha, FALSE, "smooth", <<RA>>, l),
     RenderStroke("pen", alpha, TRUE, "smooth", <<RA>>, l),
     [kind |-> "shape", shape |-> "rect", color |-> color, size |-> size,
      alpha |-> alpha, composite |-> "source-over",
      x0 |-> 0, y0 |-> 0, x1 |-> Num(2), y1 |-> Num(2), layer |-> l],
     [kind |-> "text", text |-> "hi", x |-> 0, y |-> 0, color |-> color,
      size |-> Max2(MinFont, size * FontFactor), font |-> TextFont, layer |-> l],
     NewImage(CHOOSE img \in ImageSizes : TRUE, l)}
RenderOps == RenderOpsOn(0) \cup RenderOpsOn(1)
RenderDocs == UNION {[1..n -> RenderOps] : n \in 0..MaxRenderOps}
RenderLayer(k, v, o) == [id |-> k, name |-> LayerName(k + 1), visible |-> v, opacity |-> o]
Opacities == {50, 100}
RenderLayers ==
    {<<RenderLayer(0, v, o)>> : v \in BOOLEAN, o \in Opacities}
    \cup {<<RenderLayer(0, v0, o0), RenderLayer(1, v1, o1)>> :
             v0 \in BOOLEAN, o0 \in Opacities, v1 \in BOOLEAN, o1 \in Opacities}
Backgrounds == {"plain", "grid"}

InitRender ==
    /\ ops \in RenderDocs
    /\ layers \in RenderLayers
    /\ redo = <<>>
    /\ currentLayer = 0
    /\ tool = "pen"
    /\ smooth = TRUE
    /\ shapeAssist = TRUE
    /\ shiftKey = FALSE
    /\ isDrawing = FALSE
    /\ currentStroke = "null"
    /\ currentShape = NoShape
    /\ textEditor = [visible |-> FALSE, x |-> 0, y |-> 0, value |-> ""]
    /\ preview = NoShape
    /\ pendingLoads = <<>>
    /\ pendingImports = <<>>
    /\ saved = <<>>
    /\ savedFrom = <<>>
    /\ ev = [name |-> "init", ok |-> TRUE, n |-> 0, id |-> 0, was |-> 0]
    /\ trail = <<>>
    /\ maxIssued = Len(layers) - 1
    /\ background = "plain"
    /\ ctx = DefaultCtx
    /\ canvas = <<>>
    /\ called = NoCall
NextRender ==
    \/ ResizeCanvas
    \/ \E bg \in Backgrounds : SetBackground(bg)

SpecRender == InitRender /\ [][NextRender]_vars


\* The pure functions on inputs of their own.  A call is an action that
\* records the function, its arguments and its result in `called`; a
\* behaviour makes one call.
Calls(fn, args, result) ==
    /\ called = NoCall
    /\ called' = [fn |-> fn, args |-> args, result |-> result]
    /\ UNCHANGED <<ops, redo, layerVars, settingVars, gestureVars, textEditor,
                   preview, ioVars, ev, trail, renderVars>>

\* Polylines of up to MaxRdpPts pointer positions, and the polyline
\* (0,0), (1,0.1), (2,-0.1), (3,0) in tenths of a pixel.
RdpPoints == {[x |-> x, y |-> y, p |-> DefaultPressure] : x \in 0..2, y \in 0..1}
TenthsPolyline ==
    <<[x |-> 0, y |-> 0, p |-> DefaultPressure], [x |-> 10, y |-> 1, p |-> DefaultPressure],
      [x |-> 20, y |-> -1, p |-> DefaultPressure], [x |-> 30, y |-> 0, p |-> DefaultPressure]>>
RdpInputs == UNION {[1..n -> RdpPoints] : n \in 1..MaxRdpPts} \cup {TenthsPolyline}
\* epsilon: the 0.9 of pointerUp (line 763), 0.5, and 5 (0.5 in tenths)
Epsilons == {[n |-> EpsNum, d |-> EpsDen], [n |-> 1, d |-> 2], [n |-> 5, d |-> 1]}
CallSimplifyRDP(points, epsilon) ==
    Calls("simplifyRDP", [points |-> points, epsilon |-> epsilon],
          simplifyRDP(points, epsilon))

\* Shapes as pointerDown and pointerMove build them (lines 690-703, 741-749):
\* start and end at pointer positions of a small grid, and the shape from
\* (0,0) to (10,4).
ShapeFrom(kind, x0, y0, x1, y1) ==
    [kind |-> "shape", shape |-> kind, color |-> color, size |-> size,
     alpha |-> alpha, composite |-> "source-over",
     x0 |-> x0, y0 |-> y0, x1 |-> Num(x1), y1 |-> Num(y1), layer |-> 0]
ShapeKinds == {"line", "rect", "ellipse"}
PointerShapes ==
    {ShapeFrom(k, x0, y0, x1, y1) :
        k \in ShapeKinds, x0 \in 0..1, y0 \in 0..1,
        x1 \in -MaxShapeCoord..MaxShapeCoord, y1 \in -MaxShapeCoord..MaxShapeCoord}
    \cup {ShapeFrom(k, 0, 0, 10, 4) : k \in ShapeKinds}
\* ... and the results of the constraint, to be constrained again
ShapeInputs == PointerShapes \cup {Constrained(shape) : shape \in PointerShapes}
CallConstrainWithShift(shape, shift) ==
    Calls("constrainWithShift", [shape |-> shape, shift |-> shift],
          constrainWithShift(shape, shift))

\* Canvases of up to MaxSurface x MaxSurface pixels and images smaller than,
\* as large as and larger than they are
Surfaces == {[width |-> w, height |-> h] : w \in 1..MaxSurface, h \in 1..MaxSurface}
ImageDims == {1, 3, 8, 25}
FitInputs == {[width |-> w, height |-> h] : w \in ImageDims, h \in ImageDims}
CallFitImage(c, img) ==
    Calls("img.onload", [c |-> c, img |-> img], FitImage(c.width, c.height, img, 0))

NextPure ==
    \/ \E points \in RdpInputs, epsilon \in Epsilons : CallSimplifyRDP(points, epsilon)
    \/ \E shape \in ShapeInputs, shift \in BOOLEAN : CallConstrainWithShift(shape, shift)
    \/ \E c \in Surfaces, img \in FitInputs : CallFitImage(c, img)

SpecPure == Init /\ [][NextPure]_vars


\* ------------------------------------------------------------ properties
IsHeld(op) == op.kind = "stroke" /\ op.held
NotImage(op) == op.kind # "image"
WithoutImages(document) == SelectSeq(document, NotImage)
RECURSIVE IsSubseq(_, _)
\* a is b with some elements left out
IsSubseq(a, b) ==
    IF a = <<>> THEN TRUE
    ELSE IF b = <<>> THEN FALSE
    ELSE IF Head(a) = Head(b) THEN IsSubseq(Tail(a), Tail(b))
    ELSE IsSubseq(a, Tail(b))

\* C1: an undo of a non-empty Document [o1..on] leaves exactly [o1..on-1],
\* and each redo of a run of undos and redos restores exactly the Document
\* that existed before the undo it reverts (trail holds those Documents), so
\* k undos followed by k redos restore the Document before the first undo.
C1_UndoRedoInverse ==
    [][/\ (ev'.name = "undo" /\ ops # <<>>) => ops' = Front(ops)
       /\ (ev'.name = "redo" /\ ev'.ok /\ trail # <<>>) => ops' = Head(trail)]_vars
\* Two undos and then one redo have happened, on a Document of two Ops.
C1_Witness ==
    /\ ev.name = "redo" /\ ev.ok
    /\ Len(trail) = 1 /\ Len(trail[1]) = 2
    /\ Len(ops) = 1 /\ Len(redo) = 1

\* C2: right after an Op was committed by a shape gesture, a text commit or
\* an image import (here: one that completes while no gesture is going on),
\* the redo stack is empty.
C2_RedoClearedOnCommit ==
    (\/ (ev.name = "imageLoaded" /\ ~isDrawing /\ currentStroke = "null")
     \/ (ev.name = "commitText" /\ ev.ok /\ ~isDrawing /\ currentStroke = "null")
     \/ (ev.name \in EndKinds /\ ev.n = 2))
    => redo = <<>>

\* C3: while a stroke gesture is capturing, its stroke is not on the redo
\* stack (no undo has removed it from the Document).
C3_InFlightStrokeNotUndone ==
    (isDrawing /\ currentStroke # "null") => \A i \in DOMAIN redo : ~IsHeld(redo[i])

\* C4: a pointer-leave or pointer-cancel that ends a shape gesture leaves
\* the Document as it was and ends the gesture.
C4_ShapeCancelDiscards ==
    [][(/\ ev'.name \in {"pointerleave", "pointercancel"}
        /\ currentShape # NoShape
        /\ currentStroke = "null")
       => (ops' = ops /\ currentShape' = NoShape /\ ~isDrawing')]_vars

\* C5: deleteLayer(id) with two or more layers removes that layer from the
\* layer list and leaves the Document with exactly the Ops of the other
\* layers, in their order; with one layer it changes nothing.
C5_LayerDeletion ==
    [][ev'.name = "deleteLayer" =>
         IF Len(layers) >= 2
         THEN /\ ev'.ok
              /\ IsSubseq(layers', layers)
              /\ Len(layers') = Len(layers) - 1
              /\ \A i \in DOMAIN layers' : layers'[i].id # ev'.id
              /\ IsSubseq(ops', ops)
              /\ \A i \in DOMAIN ops' : ops'[i].layer # ev'.id
              /\ Len(ops') = Cardinality({i \in DOMAIN ops : ops[i].layer # ev'.id})
         ELSE /\ ~ev'.ok
              /\ UNCHANGED <<layers, ops, redo, currentLayer>>]_vars
\* A layer was deleted with one of its Ops, and an Op of another layer stays.
C5_Witness ==
    /\ ev.name = "deleteLayer" /\ ev.ok /\ ev.n = 1
    /\ Len(ops) = 1

\* C6: the layer list is never empty and the current layer id is the id of
\* a layer of the list.
C6_CurrentLayerExists ==
    /\ Len(layers) >= 1
    /\ \E i \in DOMAIN layers : layers[i].id = currentLayer
\* The current layer has just been deleted.
C6_Witness ==
    /\ ev.name = "deleteLayer" /\ ev.ok
    /\ ev.was = ev.id

\* C7: layer ids are pairwise distinct, and the id given to a new layer is
\* greater than every id given to a layer before.
C7_LayerIdsMonotonic ==
    [][ev'.name = "addLayer" =>
         /\ layers'[Len(layers')].id > maxIssued
         /\ Cardinality({layers'[i].id : i \in DOMAIN layers'}) = Len(layers')]_vars

\* C8: the load of a text that does not parse, or that is not an array,
\* reports an error and leaves Document and redo stack as they were; any
\* other load installs the whole array.
C8_LoadFailureAtomic ==
    [][ev'.name = "loadComplete" =>
         \E i \in DOMAIN pendingLoads :
            /\ pendingLoads' = Without(pendingLoads, i)
            /\ IF pendingLoads[i].wellFormed /\ pendingLoads[i].isArray
               THEN ev'.ok /\ Len(ops') = Len(pendingLoads[i].items)
               ELSE ~ev'.ok /\ UNCHANGED <<ops, redo>>]_vars
\* A load has failed on a non-empty Document with a non-empty redo stack.
C8_Witness ==
    /\ ev.name = "loadComplete" /\ ~ev.ok
    /\ ops # <<>> /\ redo # <<>>

C10_EmptyUndoRedoNoOp ==
    [][/\ (ev'.name = "undo" /\ ops = <<>>)
            => UNCHANGED <<ops, redo, layers, currentLayer>>
       /\ (ev'.name = "redo" /\ redo = <<>>)
            => UNCHANGED <<ops, redo, layers, currentLayer>>]_vars
\* An undo found the Document empty while the redo stack held an Op.
C10_Witness ==
    /\ ev.name = "undo" /\ ~ev.ok
    /\ ops = <<>> /\ redo # <<>>

\* The Ops a full render has to paint, as indices of the Document: for each
\* visible layer of the list in order, the Ops of that layer in Document
\* order.
RECURSIVE ToPaint(_)
ToPaint(ls) ==
    IF ls = <<>> THEN <<>>
    ELSE LET Mine(i) == ops[i].layer = Head(ls).id
         IN  (IF Head(ls).visible THEN SelectSeq([i \in DOMAIN ops |-> i], Mine) ELSE <<>>)
             \o ToPaint(Tail(ls))
\* The Ops the last render painted: the Op of each paint call after the
\* background's.
Painted == [k \in 1..(Len(canvas) - 1) |-> canvas[k + 1].from]
Rendered == canvas # <<>>

\* C11: the Ops a full render paints are, in order, the Ops of the visible
\* layers taken layer by layer in layer-list order and, within a layer, in
\* Document order: no Op of an invisible layer, each Op of a visible layer
\* exactly once.
C11_PaintOrder == Rendered => Painted = ToPaint(layers)

\* C12: a Stroke or Shape is painted with alpha (Op alpha x layer opacity)
\* and its stored blend mode, an Image or Text with the layer opacity and
\* normal blending, whatever was painted before.
LayerOf(op) == CHOOSE l \in {layers[i] : i \in DOMAIN layers} : l.id = op.layer
C12_PaintAlphaAndBlend ==
    \A k \in 2..Len(canvas) :
        LET op == ops[canvas[k].from]
            c == canvas[k].ctx
        IN  IF op.kind \in {"stroke", "shape"}
            THEN /\ c.globalAlpha = op.alpha * LayerOf(op).opacity
                 /\ c.globalCompositeOperation = op.composite
            ELSE /\ c.globalAlpha = 100 * LayerOf(op).opacity
                 /\ c.globalCompositeOperation = "source-over"
\* An eraser stroke of alpha 0.5 was painted on a layer of opacity 0.5, with
\* alpha 0.25, and an image right after it.
C12_Witness ==
    \E k \in 2..(Len(canvas) - 1) :
        /\ ops[canvas[k].from].kind = "stroke"
        /\ ops[canvas[k].from].alpha = 50
        /\ LayerOf(ops[canvas[k].from]).opacity = 50
        /\ canvas[k].ctx.globalAlpha = 25 * 100
        /\ canvas[k].ctx.globalCompositeOperation = "destination-out"
        /\ canvas[k + 1].call = "drawImage"

\* C13: a full render of the same Document, layer list and background as
\* the render before issues the same paint calls with the same parameters.
C13_RenderDeterministic ==
    [][(/\ Rendered
        /\ ev'.name \in {"resizeCanvas", "setBackground"}
        /\ <<ops', layers', background'>> = <<ops, layers, background>>)
       => canvas' = canvas]_vars

\* The squared distance of p from the segment [a, b], an exact rational:
\* from the nearest of a, b and the foot of the perpendicular, when the foot
\* is on the segment.
SegDistSq(p, a, b) ==
    LET len2 == sq(b.x - a.x) + sq(b.y - a.y)
        along == (p.x - a.x) * (b.x - a.x) + (p.y - a.y) * (b.y - a.y)
        cross == (p.x - a.x) * (b.y - a.y) - (p.y - a.y) * (b.x - a.x)
    IN  IF len2 = 0 \/ along <= 0 THEN [n |-> sq(p.x - a.x) + sq(p.y - a.y), d |-> 1]
        ELSE IF along >= len2 THEN [n |-> sq(p.x - b.x) + sq(p.y - b.y), d |-> 1]
        ELSE [n |-> sq(cross), d |-> len2]
\* out is pts with vertices left out, each of which is within epsilon of
\* the segment between the kept vertices before and after it.
RdpBound(pts, out, epsilon) ==
    \E at \in [1..Len(out) -> 1..Len(pts)] :
        /\ \A k \in 1..Len(out) : out[k] = pts[at[k]]
        /\ \A k \in 1..(Len(out) - 1) : at[k] < at[k + 1]
        /\ \A i \in 1..Len(pts) :
              \/ \E k \in 1..Len(out) : at[k] = i
              \/ \E k \in 1..(Len(out) - 1) :
                    /\ at[k] < i /\ i < at[k + 1]
                    /\ ~RatGt(SegDistSq(pts[i], out[k], out[k + 1]),
                              [n |-> sq(epsilon.n), d |-> sq(epsilon.d)])

\* C14: every point of simplifyRDP's output is a vertex of its input, in
\* input order, and every vertex left out is within epsilon of the output
\* segment between the kept vertices that enclose it; the polyline
\* (0,0), (1,0.1), (2,-0.1), (3,0) with epsilon 0.5 gives (0,0), (3,0).
C14_RdpBound ==
    called.fn = "simplifyRDP" =>
        /\ RdpBound(called.args.points, called.result, called.args.epsilon)
        /\ (called.args.points = TenthsPolyline /\ called.args.epsilon = [n |-> 5, d |-> 1])
              => called.result = <<TenthsPolyline[1], TenthsPolyline[4]>>
\* A vertex off the segment between its neighbours was left out, and
\* another vertex of the same polyline was kept.
C14_Witness ==
    /\ called.fn = "simplifyRDP"
    /\ Len(called.args.points) = 4
    /\ Len(called.result) = 3
    /\ \E i \in 2..3 :
          /\ \A k \in 1..3 : called.result[k] # called.args.points[i]
          /\ SegDistSq(called.args.points[i], called.args.points[i - 1],
                       called.args.points[i + 1]).n > 0


\* C15: with the constraint active a rect or an ellipse becomes a square or a
\* circle: the start point stays, and with m the smaller of |x1 - x0| and
\* |y1 - y0| the end point is (x0 + sign(x1 - x0) m, y0 + sign(y1 - y0) m),
\* so both sides have magnitude m and keep their signs; the rect (0,0)-(10,4)
\* becomes (0,0)-(4,4).
IsPointerCall == called.fn = "constrainWithShift" /\ called.args.shape \in PointerShapes
C15_SquareConstraint ==
    (IsPointerCall /\ called.args.shift /\ called.args.shape.shape \in {"rect", "ellipse"}) =>
        LET s == called.args.shape
            out == called.result
            w == s.x1.i - s.x0
            h == s.y1.i - s.y0
            m == IF Abs(w) <= Abs(h) THEN Abs(w) ELSE Abs(h)
        IN  /\ out.x0 = s.x0 /\ out.y0 = s.y0
            /\ out.x1 = Num(s.x0 + (IF w > 0 THEN m ELSE IF w < 0 THEN -m ELSE 0))
            /\ out.y1 = Num(s.y0 + (IF h > 0 THEN m ELSE IF h < 0 THEN -m ELSE 0))
            /\ Abs(out.x1.i - out.x0) = Abs(out.y1.i - out.y0)
            /\ (s = ShapeFrom("rect", 0, 0, 10, 4) => out = ShapeFrom("rect", 0, 0, 4, 4))
C15_Witness ==
    /\ called.fn = "constrainWithShift" /\ called.args.shift
    /\ called.args.shape = ShapeFrom("rect", 0, 0, 10, 4)
    /\ called.result = ShapeFrom("rect", 0, 0, 4, 4)

\* C16 (as stated): with the constraint active the line (0,0)-(10,4), whose
\* direction of about 21.8 degrees is nearest to angle 0, snaps to angle 0
\* and gets the end point (10, 0).
IsExampleLine ==
    /\ called.fn = "constrainWithShift" /\ called.args.shift
    /\ called.args.shape = ShapeFrom("line", 0, 0, 10, 4)
C16_LineExample ==
    IsExampleLine => called.result = ShapeFrom("line", 0, 0, 10, 0)
\* C16 (amended): the line (0,0)-(10,4) snaps to angle 0 and keeps its length
\* sqrt(10^2 + 4^2) = sqrt 116: the end point is (sqrt 116, 0), about
\* (10.77, 0), on the positive x axis.
C16_LineExampleLength ==
    IsExampleLine =>
        /\ called.result.x0 = 0 /\ called.result.y0 = 0
        /\ called.result.y1 = Num(0)
        /\ called.result.x1 = [i |-> 0, s |-> 1, r |-> 2 * 116]
        /\ 10 * 10 < 116 /\ 116 < 11 * 11
C16_Witness ==
    IsExampleLine /\ called.result.x1.s = 1 /\ called.result.y1 = Num(0)

\* C17: with the constraint active a line keeps its start point; its
\* direction from the start point is that one of the eight multiples of 45
\* degrees which is nearest to the direction of the input (no other of the
\* eight makes a smaller angle with it), and its squared length
\* x-delta^2 + y-delta^2 equals that of the input segment.
\* The result's vector is (a, b) * sqrt(r / 2); u . (dx, dy) / |u| is the
\* cosine of the angle between a direction u and the input, up to |(dx, dy)|.
EightDirs == {<<a, b>> : a \in -1..1, b \in -1..1} \ {<<0, 0>>}
CosGe(u, v, dx, dy) ==
    LET m1 == u[1] * dx + u[2] * dy
        m2 == v[1] * dx + v[2] * dy
        w1 == IF u[1] # 0 /\ u[2] # 0 THEN 1 ELSE 2
        w2 == IF v[1] # 0 /\ v[2] # 0 THEN 1 ELSE 2
    IN  \* m1 / sqrt(3 - w1) >= m2 / sqrt(3 - w2)
        IF m1 >= 0 /\ m2 >= 0 THEN w1 * m1 * m1 >= w2 * m2 * m2
        ELSE IF m1 >= 0 THEN TRUE
        ELSE IF m2 >= 0 THEN FALSE
        ELSE w1 * m1 * m1 <= w2 * m2 * m2
FitScale(c, img) ==
    MathMin(MathMin(Quotient(c.width, img.width), Quotient(c.height, img.height)),
            FromInt(1))
NotAbove(f, n) == ~f.neg /\ ~Less(FromInt(n), f)
C19_ImageFit ==
    called.fn = "img.onload" =>
        LET c == called.args.c
            img == called.args.img
            op == called.result
        IN  /\ op.w = Product(img.width, FitScale(c, img))
            /\ op.h = Product(img.height, FitScale(c, img))
            /\ NotAbove(op.w, c.width) /\ NotAbove(op.h, c.height)
            /\ NotAbove(op.w, img.width) /\ NotAbove(op.h, img.height)
            /\ op.x = Half(Difference(FromInt(c.width), op.w)) /\ ~op.x.neg
            /\ op.y = Half(Difference(FromInt(c.height), op.h)) /\ ~op.y.neg

\* C20: when an image import completes, the Image Op becomes the last
\* element of the Document as it is at that time, edits made since the
\* import was started included, and every Op that was in the Document just
\* before keeps its position and its contents.
ImportCompletes == Len(pendingImports') < Len(pendingImports)
C20_ImageAppendedLast ==
    [][ImportCompletes =>
          /\ Len(ops') = Len(ops) + 1
          /\ ops'[Len(ops')].kind = "image"
          /\ \A i \in 1..Len(ops) : ops'[i] = ops[i]]_vars
\* The imports of SpecImport start on the empty Document: an Op before the
\* Image Op is an edit made while the image was decoding.
C20_Witness ==
    /\ ev.name = "imageLoaded"
    /\ Len(ops) = 2
    /\ ops[1].kind \in {"stroke", "shape"}
    /\ ops[2].kind = "image"

\* Two Ops with the same fields (which object currentStroke refers to is not
\* a field).
SameFields(a, b) ==
    IF a.kind = "stroke" /\ b.kind = "stroke"
    THEN [a EXCEPT !.held = FALSE] = [b EXCEPT !.held = FALSE]
    ELSE a = b

\* C21: in-place mutation is confined to the in-flight stroke: a pointer-move
\* or the end of a gesture changes the fields of no Op of the Document or of
\* the redoStack other than the StrokeOp that the gesture's pointer-down
\* created, the one currentStroke refers to.
C21_MutationConfined ==
    [][ev'.name \in {"pointerMove"} \cup EndKinds =>
          /\ \A i \in DOMAIN ops \cap DOMAIN ops' :
                 SameFields(ops'[i], ops[i]) \/ IsHeld(ops[i])
          /\ \A i \in DOMAIN redo \cap DOMAIN redo' :
                 SameFields(redo'[i], redo[i]) \/ IsHeld(redo[i])]_vars

\* C22: when a stroke gesture ends and its StrokeOp is still in the Document,
\* the StrokeOp's points become simplifyRDP(captured points, 0.9) if it is
\* marked smooth and stay the captured points if it is not, whatever was
\* appended to the Document during the gesture.  The captured points are at
\* least the points the StrokeOp holds when the gesture ends.
C22_StrokeFinalized ==
    [][(ev'.name \in EndKinds /\ currentStroke # "null") =>
          \A i \in DOMAIN ops :
              IsHeld(ops[i]) =>
                  /\ i \in DOMAIN ops'
                  /\ ops'[i].points =
                         IF ops[i].smooth
                         THEN simplifyRDP(ops[i].points, [n |-> EpsNum, d |-> EpsDen])
                         ELSE ops[i].points]_vars

\* C23: the Shape committed at the end of a shape gesture is the provisional
\* shape last drawn on the preview during that gesture (start point at the
\* press position, end point at the constrained position of the last
\* pointer-move).
C23_CommitMatchesPreview ==
    [][(ev'.name \in EndKinds /\ currentStroke = "null" /\ currentShape # NoShape
            /\ preview # NoShape) =>
          Last(ops') = preview]_vars

\* C24: in every reachable state every Op of the Document has the id of a
\* layer of the layer list.
C24_OpsOnExistingLayers ==
    \A i \in DOMAIN ops : \E j \in DOMAIN layers : layers[j].id = ops[i].layer

\* C25: the gesture state machine.  A pointer-move in Idle changes nothing;
\* after every gesture-end event (pointerup, pointerleave, pointercancel) the
\* machine is Idle with no in-flight stroke and no provisional shape; and an
\* in-flight stroke and a provisional shape are never both present.
C25_GestureMachine ==
    [][/\ (ev'.name = "pointerMove" /\ ~isDrawing) =>
              UNCHANGED <<ops, redo, layerVars, settingVars, gestureVars, textEditor,
                          preview, ioVars>>
       /\ ev'.name \in EndKinds =>
              (~isDrawing' /\ currentStroke' = "null" /\ currentShape' = NoShape)
       /\ ~(currentStroke' # "null" /\ currentShape' # NoShape)]_vars

\* C26: the shape preview has no effect on the document.  The pointer-down of
\* a shape gesture and every pointer-move until the gesture's end leave the
\* Document, the layer list and the current layer unchanged; the Document
\* grows by exactly one Shape at the pointer release and at no other event of
\* the gesture.
ShapeGesture == isDrawing /\ currentShape # NoShape
C26_PreviewLeavesDocument ==
    [][/\ (ev'.name = "pointerDown" /\ ev'.ok /\ tool \in ShapeKinds) =>
              UNCHANGED <<ops, layers, currentLayer>>
       /\ (ev'.name = "pointerMove" /\ ShapeGesture) =>
              UNCHANGED <<ops, layers, currentLayer>>
       /\ (ev'.name = "pointerup" /\ ShapeGesture) =>
              /\ Len(ops') = Len(ops) + 1
              /\ Last(ops').kind = "shape"
              /\ \A i \in DOMAIN ops : ops'[i] = ops[i]
              /\ UNCHANGED <<layers, currentLayer>>
       /\ (ev'.name \in {"pointerleave", "pointercancel"} /\ ShapeGesture) =>
              UNCHANGED <<ops, layers, currentLayer>>]_vars

\* C27: layer deletion is not an undo.  deleteLayer leaves the redoStack
\* unchanged and only takes Ops out of the Document; an undo puts no Op into
\* the Document, and a redo puts into it only the Op on top of the redoStack:
\* the Ops deleteLayer removed, being on no stack, do not come back.
C27_DeleteIsNotUndo ==
    [][/\ ev'.name = "deleteLayer" => (redo' = redo /\ IsSubseq(ops', ops))
       /\ ev'.name = "undo" => IsSubseq(ops', ops)
       /\ (ev'.name = "redo" /\ ev'.ok) =>
              (redo # <<>> /\ ops' = ops \o <<Head(redo)>>)]_vars
\* deleteLayer removed an Op from the Document while the redoStack held one.
C27_Witness ==
    ev.name = "deleteLayer" /\ ev.ok /\ ev.n > 0 /\ redo # <<>>

\* C28: a pointer press that commits no Op leaves the redoStack unchanged: a
\* press with a non-primary button (the handler reports ok = FALSE), with the
\* select tool, or with the text tool (the press opens the editor; cancelling
\* it or leaving it empty changes the redoStack no further).
C28_IdlePressKeepsRedo ==
    [][/\ (ev'.name = "pointerDown" /\ (~ev'.ok \/ tool \in {"select", "text"})) =>
              redo' = redo
       /\ (ev'.name = "cancelText" \/ (ev'.name = "commitText" /\ ~ev'.ok)) =>
              redo' = redo]_vars

\* C29: undo and redo conserve Ops: each leaves the concatenation
\* Document ++ redoStack unchanged as a sequence and changes the length of
\* the Document by at most one.
C29_UndoRedoConserve ==
    [][ev'.name \in {"undo", "redo"} =>
          /\ ops' \o redo' = ops \o redo
          /\ Len(ops') - Len(ops) \in {-1, 0, 1}]_vars
\* An undo or a redo moved an Op between a Document and a redoStack that
\* both hold an Op afterwards.
C29_Witness ==
    ev.name \in {"undo", "redo"} /\ ev.ok /\ ops # <<>> /\ redo # <<>>

\* C30: a pointer-down with a freehand tool (pen, highlighter, eraser)
\* appends exactly one Stroke to the end of the Document, with exactly one
\* Point, on the current layer, with alpha 0.3 for the highlighter and the
\* user alpha otherwise, and with the fixed colour and destination-out for
\* the eraser, the tool colour and source-over for pen and highlighter.
C30_FreehandStart ==
    [][(ev'.name = "pointerDown" /\ ev'.ok /\ tool \in FREEHAND_TOOLS) =>
          /\ Len(ops') = Len(ops) + 1
          /\ \A i \in DOMAIN ops : SameFields(ops'[i], ops[i])
          /\ LET stroke == Last(ops') IN
                /\ stroke.kind = "stroke"
                /\ stroke.tool = tool
                /\ Len(stroke.points) = 1
                /\ stroke.layer = currentLayer
                /\ stroke.alpha = IF tool = "highlighter" THEN 30 ELSE alpha
                /\ stroke.color = IF tool = "eraser" THEN "#000000" ELSE color
                /\ stroke.composite =
                       IF tool = "eraser" THEN "destination-out" ELSE "source-over"]_vars
\* A highlighter stroke was started on a Document that held an Op.
C30_Witness ==
    /\ ev.name = "pointerDown" /\ ev.ok
    /\ Len(ops) = 2
    /\ IsHeld(Last(ops)) /\ Last(ops).tool = "highlighter" /\ Len(Last(ops).points) = 1

\* The elements of pts at the indices of S, in the order of pts.
Kept(pts, S) ==
    [k \in 1..Cardinality(S) |->
        pts[CHOOSE i \in S : Cardinality({j \in S : j < i}) = k - 1]]

\* C31: simplifyRDP returns an order-preserving subsequence of its input:
\* the input's points at a set of indices that holds the first and the last
\* index, each index once (no split point appears twice); an input of fewer
\* than 3 points is returned unchanged.
C31_RdpStructure ==
    called.fn = "simplifyRDP" =>
        LET points == called.args.points
            result == called.result
        IN  /\ \E S \in SUBSET (1..Len(points)) :
                  /\ {1, Len(points)} \subseteq S
                  /\ result = Kept(points, S)
            /\ Len(points) < 3 => result = points
\* A polyline of four points with a repeated vertex was split once: one of
\* its vertices was left out and the split point was kept once.
C31_Witness ==
    /\ called.fn = "simplifyRDP"
    /\ Len(called.args.points) = 4
    /\ called.args.points[2] = called.args.points[3]
    /\ Len(called.result) = 3
    /\ called.result[2] = called.args.points[2]

=========================================================================
